---- MODULE Spec2Model ----
(***************************************************************************)
(* ThumbCraft (src/js/app.js): the thumbnail store (ThumbnailGenerator),   *)
(* the video wrapper (VideoManager) and the auto-capture sequencer         *)
(* (UIController.startAutoCapture) as a state machine.                     *)
(*                                                                         *)
(* Times are integers in units of 1/Unit second, so that step/2 and        *)
(* duration * percent are exact for whole-second durations and whole       *)
(* percentages.  NaN (video.duration before metadata, parseFloat of a      *)
(* non-number) is the value NaN, tested with IsNaN before any arithmetic.  *)
(*                                                                         *)
(* Timers.  A setTimeout or setInterval delay is a lower bound.  The       *)
(* 200 ms settle timeouts fire in the order they were armed.  setInterval  *)
(* keeps its 400 ms grid: a tick that fires late does not delay the next   *)
(* one, so a tick can fire before the settle timeout armed by the tick     *)
(* before it, but not before the one armed two ticks ago, which was due    *)
(* at least 200 ms earlier.  Nothing else orders the callbacks.            *)
(*                                                                         *)
(* Specifications, over the same variables:                                *)
(*   Spec       the page: user events, media events, timer callbacks       *)
(*   SpecQuiet  the page when every tick fires after the settle timeout    *)
(*              armed by the tick before it, and the user does nothing     *)
(*              during a run but press Stop                                *)
(*   SpecStore  ThumbnailGenerator's methods called with any index         *)
(*   SpecPlan   the capture-plan computation of startAutoCapture           *)
(*   SpecLive   a run left alone under fair timers, captures may throw      *)
(*   SpecVideo  VideoManager: loads, errors, seeks, play and pause          *)
(*   SpecCapture  captureFrame between loads and errors                     *)
(*   SpecSize   the output size fields and the ratio lock                   *)
(*   SpecRatio  PresetManager.calculateRatio                                *)
(*   SpecExport ExportManager: format changes and the save buttons          *)
(*   SpecEncode ThumbnailGenerator.capture with any size and format         *)
(*   SpecYoutube  YouTubeThumbnailFetcher.fetchAvailableThumbnails           *)
(***************************************************************************)
EXTENDS Integers, Sequences, FiniteSets, TLC

VARIABLES
    thumbnails,        \* ThumbnailGenerator.thumbnails
    selectedIndex,     \* ThumbnailGenerator.selectedIndex
    isLoaded,          \* VideoManager.isLoaded
    netState,          \* the video element: "empty", "loading", "loaded"
    duration,          \* video.duration (NaN until metadata is known)
    currentTime,       \* video.currentTime
    buttons,           \* the disabled flags of saveSelectedBtn, saveAllBtn, clearBtn
    autoSnapInterval,  \* UIController.autoSnapInterval: 0 (null) or a timer handle
    liveIntervals,     \* the handles of the setInterval timers not yet cleared
    runs,              \* the closures (positions, index) of startAutoCapture, by handle
    timeouts,          \* the pending 200 ms settle timeouts, oldest first
    paused,            \* video.paused
    tainted,           \* the video's source is cross-origin: reading the canvas back throws
    objectURL,         \* VideoManager.objectURL: 0 (null) or an object URL
    liveURLs,          \* the object URLs created and not revoked
    outputWidth,       \* the number in the width field (0: empty or not a number)
    outputHeight,      \* the number in the height field
    lockRatio,         \* the lock-ratio checkbox
    format,            \* the export format chosen (ExportManager.format)
    downloads,         \* the downloads triggered, oldest first
    fetch,             \* the call of fetchAvailableThumbnails under way or last ended
    call               \* the last call: op, arg, ret (what an observer of the page,
                       \* or the caller of a method, has just seen)

\* the page without the observer's variable
pageVars == <<thumbnails, selectedIndex, isLoaded, netState, duration, currentTime,
              buttons, autoSnapInterval, liveIntervals, runs, timeouts,
              paused, tainted, objectURL, liveURLs, outputWidth, outputHeight,
              lockRatio, format, downloads, fetch>>

vars == <<pageVars, call>>

--------------------------------------------------------------------------
(* Bounds of the model *)

MaxThumbs == 2       \* thumbnails held by the store at once
MaxPending == 2      \* settle timeouts pending at once
MaxIndexArg == 3     \* SpecStore: indices passed are in -MaxIndexArg .. MaxIndexArg
MaxDuration == 12    \* SpecPlan: durations are 1 .. MaxDuration seconds
MaxObjectURLs == 2   \* object URLs that can exist at once
MaxDimension == 8    \* SpecSize: the numbers typed into the size fields are 0 .. MaxDimension
MaxDownloads == 1    \* SpecExport: downloads triggered
MaxSide == 24        \* SpecRatio: widths and heights are 1 .. MaxSide, and the examples

--------------------------------------------------------------------------
(* Numbers *)

Unit == 2 * 100

NaN == -1

IsNaN(x) == x = NaN

\* the size of the preset the page starts with ('youtube')
PresetWidth == 1280

PresetHeight == 720

Max(a, b) == IF a >= b THEN a ELSE b

Min(a, b) == IF a <= b THEN a ELSE b

\* Math.round(n / d) for n >= 0, d > 0: the nearest integer, halves up
Round(n, d) == (2 * n + d) \div (2 * d)

--------------------------------------------------------------------------
(* PresetManager *)

RECURSIVE gcd(_, _)
gcd(a, b) == IF b = 0 THEN a ELSE gcd(b, a % b)

\* the label `${a}:${b}`, or `${(width / height).toFixed(2)}:1` with the
\* decimal held in hundredths
RatioLabel(a, b) == [kind |-> "ratio", a |-> a, b |-> b]

DecimalLabel(hundredths) == [kind |-> "decimal", a |-> hundredths, b |-> 1]

\* a calculateRatio that does not divide by the gcd
calculateRatio_Unreduced(width, height) ==
    IF width <= 21 /\ height <= 21
    THEN RatioLabel(width, height)
    ELSE DecimalLabel(Round(100 * width, height))

calculateRatio(width, height) ==
    LET divisor == gcd(width, height)
        ratioW == width \div divisor
        ratioH == height \div divisor
    IN  IF ratioW <= 21 /\ ratioH <= 21
        THEN RatioLabel(ratioW, ratioH)
        ELSE DecimalLabel(Round(100 * width, height))

--------------------------------------------------------------------------
(* The state as one record, so that a handler that calls other handlers is
   the composition of their effects. *)

Cur ==
    [thumbnails |-> thumbnails, selectedIndex |-> selectedIndex,
     isLoaded |-> isLoaded, netState |-> netState, duration |-> duration,
     currentTime |-> currentTime, buttons |-> buttons,
     autoSnapInterval |-> autoSnapInterval, liveIntervals |-> liveIntervals,
     runs |-> runs, timeouts |-> timeouts,
     paused |-> paused, tainted |-> tainted, objectURL |-> objectURL,
     liveURLs |-> liveURLs, outputWidth |-> outputWidth,
     outputHeight |-> outputHeight, lockRatio |-> lockRatio,
     format |-> format, downloads |-> downloads, fetch |-> fetch]

--------------------------------------------------------------------------
(* ThumbnailGenerator *)

\* thumbnails[index] of JavaScript (0-based): <<element>>, or <<>> for undefined
At(thumbs, index) ==
    IF index >= 0 /\ index < Len(thumbs) THEN <<thumbs[index + 1]>> ELSE <<>>

\* a splice that drops the last element whatever the index
splice_Last(thumbs, index) ==
    IF index >= 0 /\ index < Len(thumbs)
    THEN SubSeq(thumbs, 1, Len(thumbs) - 1)
    ELSE thumbs

\* Array.prototype.splice(index, 1): a negative index counts from the end
splice(thumbs, index) ==
    LET len == Len(thumbs)
        start == IF index < 0 THEN Max(len + index, 0) ELSE Min(index, len)
        deleteCount == Min(1, len - start)
    IN  IF deleteCount <= 0
        THEN thumbs
        ELSE SubSeq(thumbs, 1, start) \o SubSeq(thumbs, start + 2, len)

\* a getMimeType whose fallback is JPEG
getMimeType_JpegFallback(fmt) ==
    CASE fmt = "png" -> "image/png"
      [] fmt = "jpeg" -> "image/jpeg"
      [] fmt = "webp" -> "image/webp"
      [] OTHER -> "image/jpeg"

\* getMimeType(format): types[format] || 'image/png'
getMimeType(fmt) ==
    CASE fmt = "png" -> "image/png"
      [] fmt = "jpeg" -> "image/jpeg"
      [] fmt = "webp" -> "image/webp"
      [] OTHER -> "image/png"

\* capture(video, ...): push a new thumbnail taken at video.currentTime.
\* Of the thumbnail's fields the model keeps time, width, height, format,
\* isYoutube (yt) and, of dataURL, the media type it was encoded with (mime);
\* id and size are written and never read back.  The canvas is sized width x
\* height and the frame is drawn stretched over it: video.videoWidth and
\* video.videoHeight are not read.
\* canvas.toDataURL throws a SecurityError when the frame drawn came from a
\* cross-origin source: the lines after it (the push) do not run.
capture(s, video, width, height, fmt) ==
    IF s.tainted
    THEN s
    ELSE [s EXCEPT !.thumbnails = Append(@, [time |-> video.currentTime, yt |-> FALSE,
                                             width |-> width, height |-> height,
                                             format |-> fmt,
                                             mime |-> getMimeType(fmt)])]

\* a remove that does not shift the selection down
remove_KeepSelection(s, index) ==
    [s EXCEPT !.thumbnails = splice(@, index),
              !.selectedIndex = IF @ = index THEN -1 ELSE @]

remove(s, index) ==
    [s EXCEPT !.thumbnails = splice(@, index),
              !.selectedIndex = IF @ = index THEN -1
                                ELSE IF @ > index THEN @ - 1 ELSE @]

select(s, index) == [s EXCEPT !.selectedIndex = index]

getSelected(s) ==
    IF s.selectedIndex >= 0 /\ s.selectedIndex < Len(s.thumbnails)
    THEN <<s.thumbnails[s.selectedIndex + 1]>>
    ELSE <<>>

clear(s) == [s EXCEPT !.thumbnails = <<>>, !.selectedIndex = -1]

getCount(s) == Len(s.thumbnails)

--------------------------------------------------------------------------
(* VideoManager *)

\* a seek that does not clamp
seek_Unclamped(s, time) ==
    IF ~s.isLoaded THEN s ELSE [s EXCEPT !.currentTime = time]

\* seek(time): nothing unless loaded; else clamp into [0, duration]
seek(s, time) ==
    IF ~s.isLoaded
    THEN s
    ELSE [s EXCEPT !.currentTime = Max(0, Min(time, s.duration))]

seekRelative(s, delta) ==
    IF ~s.isLoaded THEN s ELSE seek(s, s.currentTime + delta)

seekToStart(s) == seek(s, 0)

seekToEnd(s) ==
    IF ~s.isLoaded THEN s ELSE seek(s, s.duration)

togglePlayPause(s) ==
    IF ~s.isLoaded
    THEN s
    ELSE [s EXCEPT !.paused = ~@]

\* a cleanup that forgets the object URL without revoking it
cleanup_NoRevoke(s) == [s EXCEPT !.objectURL = 0, !.isLoaded = FALSE]

\* the object URLs createObjectURL can return
URLIds == 1..MaxObjectURLs

\* cleanup(): revoke the object URL held, if any; isLoaded = false
cleanup(s) ==
    LET s1 == IF s.objectURL # 0
              THEN [s EXCEPT !.liveURLs = @ \ {s.objectURL}, !.objectURL = 0]
              ELSE s
    IN  [s1 EXCEPT !.isLoaded = FALSE]

\* video.src = ...; video.load(): the element starts over, paused at 0
load(s, crossOrigin) ==
    [s EXCEPT !.netState = "loading", !.duration = NaN, !.currentTime = 0,
              !.paused = TRUE, !.tainted = crossOrigin]

\* createObjectURL returns a new URL: one that is not in use and is not the
\* one just revoked.  The URL of a local file is same-origin.
FreshURLs(s) == {u \in URLIds : u \notin s.liveURLs /\ u # s.objectURL}

loadFromFile(s) ==
    LET s1 == cleanup(s)
        url == CHOOSE u \in FreshURLs(s) : \A v \in FreshURLs(s) : u <= v
    IN  load([s1 EXCEPT !.objectURL = url, !.liveURLs = @ \cup {url}], FALSE)

loadFromURL(s, crossOrigin) == load(cleanup(s), crossOrigin)

\* handleMetadataLoaded, for a video of d seconds.  video.play().then(() =>
\* video.pause()) leaves the video paused, as it was.
handleMetadataLoaded(s, d) ==
    [s EXCEPT !.isLoaded = TRUE, !.netState = "loaded", !.duration = d * Unit]

\* the video's error event
handleError(s) == [s EXCEPT !.isLoaded = FALSE, !.netState = "error"]

--------------------------------------------------------------------------
(* The snap-interval value: a string, here a sequence of characters *)

DigitValue(c) ==
    CASE c = "0" -> 0 [] c = "1" -> 1 [] c = "2" -> 2 [] c = "3" -> 3 [] c = "4" -> 4
      [] c = "5" -> 5 [] c = "6" -> 6 [] c = "7" -> 7 [] c = "8" -> 8 [] c = "9" -> 9
      [] OTHER -> NaN

\* String.prototype.includes
includes(str, c) == \E i \in 1..Len(str) : str[i] = c

RECURSIVE ParseDigits(_, _, _)
ParseDigits(str, i, acc) ==
    IF i > Len(str) \/ IsNaN(DigitValue(str[i]))
    THEN acc
    ELSE ParseDigits(str, i + 1,
                     (IF IsNaN(acc) THEN 0 ELSE acc * 10) + DigitValue(str[i]))

\* parseFloat of a string without sign or decimal point: the number its leading
\* digits spell, NaN when it starts with no digit; what follows is ignored
parseFloat(str) == ParseDigits(str, 1, NaN)

--------------------------------------------------------------------------
(* UIController.startAutoCapture: the capture plan *)

\* for (let t = first; t < duration; t += step) positions.push(t)
\* (a comparison with NaN is false: no iteration)
RECURSIVE PushWhileBelow(_, _, _, _)
PushWhileBelow(t, step, dur, positions) ==
    IF IsNaN(t) \/ IsNaN(dur) \/ ~(t < dur)
    THEN positions
    ELSE PushWhileBelow(t + step, step, dur, Append(positions, t))

\* a plan whose first position is 0 instead of step / 2
buildPositions_FromZero(intervalValue, dur) ==
    LET number == parseFloat(intervalValue)
        step == IF includes(intervalValue, "%")
                THEN (dur * number) \div 100
                ELSE number * Unit
    IN  PushWhileBelow(0, step, dur, <<>>)

\* lines 745-760.  dur is video.duration in units; the interval value is a
\* positive number of seconds or of percent (the options of the page's list)
buildPositions(intervalValue, dur) ==
    IF includes(intervalValue, "%")
    THEN LET percent100 == parseFloat(intervalValue)
             step == IF IsNaN(percent100) \/ IsNaN(dur) THEN NaN
                     ELSE (dur * percent100) \div 100
         IN  PushWhileBelow(IF IsNaN(step) THEN NaN ELSE step \div 2, step, dur, <<>>)
    ELSE LET seconds == IF IsNaN(parseFloat(intervalValue)) THEN NaN
                        ELSE parseFloat(intervalValue) * Unit
         IN  PushWhileBelow(IF IsNaN(seconds) THEN NaN ELSE seconds \div 2,
                            seconds, dur, <<>>)

--------------------------------------------------------------------------
(* ExportManager *)

\* String(n) for n >= 0: its decimal digits
RECURSIVE ToDigits(_)
ToDigits(n) ==
    IF n < 10 THEN <<n>> ELSE Append(ToDigits(n \div 10), n % 10)

\* String.prototype.padStart(targetLength, fill) on a string of digits
RECURSIVE padStart(_, _, _)
padStart(str, targetLength, fill) ==
    IF Len(str) >= targetLength THEN str ELSE padStart(<<fill>> \o str, targetLength, fill)

\* time.toFixed(2).replace('.', '_'): the time in hundredths of a second
toFixed2(time) == Round(100 * time, Unit)

setFormat(s, fmt) == [s EXCEPT !.format = fmt]

getExtension(s) == IF s.format = "jpeg" THEN "jpg" ELSE s.format

\* link.download = `thumbnail_${timestamp}_${width}x${height}.${extension}`
downloadSingle(s, thumbnail) ==
    [s EXCEPT !.downloads =
        Append(@, [kind |-> "single",
                   name |-> [timestamp |-> toFixed2(thumbnail.time),
                             width |-> thumbnail.width,
                             height |-> thumbnail.height,
                             ext |-> getExtension(s)]])]

\* folder.file(name, ...): a file of that name is replaced, else added
file(folder, name) ==
    IF \E i \in 1..Len(folder) : folder[i] = name THEN folder ELSE Append(folder, name)

\* thumbnails.forEach((thumb, index) => folder.file(name, ...)) from index on
RECURSIVE AddFiles(_, _, _, _)
AddFiles(s, thumbs, index, folder) ==
    IF index >= Len(thumbs)
    THEN folder
    ELSE AddFiles(s, thumbs, index + 1,
                  file(folder, [seq |-> padStart(ToDigits(index + 1), 3, 0),
                                timestamp |-> toFixed2(thumbs[index + 1].time),
                                ext |-> getExtension(s)]))

\* a downloadAll that numbers the entries from 000
downloadAll_FromZero(s, thumbs, filename) ==
    IF Len(thumbs) = 0
    THEN s
    ELSE [s EXCEPT !.downloads =
             Append(@, [kind |-> "zip", name |-> <<filename, "zip">>,
                        folder |-> "thumbnails",
                        entries |-> [i \in 1..Len(thumbs) |->
                                       [seq |-> padStart(ToDigits(i - 1), 3, 0),
                                        timestamp |-> toFixed2(thumbs[i].time),
                                        ext |-> getExtension(s)]]])]

\* downloadAll(thumbnails, filename): nothing for an empty array; else one
\* saveAs of `${filename}.zip` holding the files of the folder 'thumbnails'.
\* The archive is built before the await; saveAs follows it.
downloadAll(s, thumbs, filename) ==
    IF Len(thumbs) = 0
    THEN s
    ELSE [s EXCEPT !.downloads =
             Append(@, [kind |-> "zip", name |-> <<filename, "zip">>,
                        folder |-> "thumbnails",
                        entries |-> AddFiles(s, thumbs, 0, <<>>)])]

--------------------------------------------------------------------------
(* YouTubeThumbnailFetcher.  A string is the sequence of its characters. *)

\* [a-zA-Z0-9_-]
IdChars ==
    {"a", "b", "c", "d", "e", "f", "g", "h", "i", "j", "k", "l", "m", "n",
     "o", "p", "q", "r", "s", "t", "u", "v", "w", "x", "y", "z", "A", "B",
     "C", "D", "E", "F", "G", "H", "I", "J", "K", "L", "M", "N", "O", "P",
     "Q", "R", "S", "T", "U", "V", "W", "X", "Y", "Z", "0", "1", "2", "3",
     "4", "5", "6", "7", "8", "9", "_", "-"}

\* {11}
IdLength == 11

\* the alternatives of the group before the ID in the first pattern, in order
IdPrefixes ==
    << <<"y", "o", "u", "t", "u", "b", "e", ".", "c", "o", "m", "/", "w", "a", "t", "c", "h", "?", "v", "=">>,
       <<"y", "o", "u", "t", "u", ".", "b", "e", "/">>,
       <<"y", "o", "u", "t", "u", "b", "e", ".", "c", "o", "m", "/", "e", "m", "b", "e", "d", "/">>,
       <<"y", "o", "u", "t", "u", "b", "e", ".", "c", "o", "m", "/", "v", "/">>,
       <<"y", "o", "u", "t", "u", "b", "e", ".", "c", "o", "m", "/", "s", "h", "o", "r", "t", "s", "/">> >>

IsVideoId(str) == Len(str) = IdLength /\ \A k \in 1..Len(str) : str[k] \in IdChars

\* the alternatives of the first pattern that match at position i of url
\* with IdLength ID characters after them
PrefixesAt(url, i) ==
    {p \in 1..Len(IdPrefixes) :
        LET from == i + Len(IdPrefixes[p])
        IN  /\ from + IdLength - 1 <= Len(url)
            /\ SubSeq(url, i, from - 1) = IdPrefixes[p]
            /\ IsVideoId(SubSeq(url, from, from + IdLength - 1))}

\* an extractVideoId that knows the second pattern only
extractVideoId_BareOnly(url) == IF IsVideoId(url) THEN url ELSE <<>>

\* extractVideoId(url): the ID captured by the leftmost match of the first
\* pattern, else url itself when it is IdLength ID characters, else null (<<>>)
extractVideoId(url) ==
    LET starts == {i \in 1..Len(url) : PrefixesAt(url, i) # {}}
    IN  IF starts # {}
        THEN LET i == CHOOSE j \in starts : \A k \in starts : j <= k
                 p == CHOOSE q \in PrefixesAt(url, i) : \A r \in PrefixesAt(url, i) : q <= r
                 from == i + Len(IdPrefixes[p])
             IN  SubSeq(url, from, from + IdLength - 1)
        ELSE IF IsVideoId(url) THEN url ELSE <<>>

qualities ==
    << [name |-> "Max Resolution", key |-> "maxresdefault", width |-> 1280, height |-> 720],
       [name |-> "Standard", key |-> "sddefault", width |-> 640, height |-> 480],
       [name |-> "High Quality", key |-> "hqdefault", width |-> 480, height |-> 360],
       [name |-> "Medium Quality", key |-> "mqdefault", width |-> 320, height |-> 180],
       [name |-> "Default", key |-> "default", width |-> 120, height |-> 90] >>

\* https://img.youtube.com/vi/${videoId}/${key}.jpg
ThumbnailUrl(videoId, key) == <<"https://img.youtube.com/vi/", videoId, "/", key, ".jpg">>

getThumbnailUrls(videoId) ==
    [k \in 1..Len(qualities) |->
        [name |-> qualities[k].name, key |-> qualities[k].key,
         width |-> qualities[k].width, height |-> qualities[k].height,
         url |-> ThumbnailUrl(videoId, qualities[k].key)]]

\* no call of fetchAvailableThumbnails yet
NoFetch ==
    [status |-> "idle", videoId |-> <<>>, probed |-> <<>>, loading |-> {},
     results |-> <<>>, error |-> ""]

\* checkThumbnailAvailability(url), up to img.src = url: the image starts to
\* load.  probed is every address requested by the call so far, in order;
\* loading is the set of those whose load has not ended.
checkThumbnailAvailability(s, url) ==
    [s EXCEPT !.fetch.probed = Append(@, url),
              !.fetch.loading = @ \cup {url}]

\* the loop of fetchAvailableThumbnails from its k-th candidate (1-based), up
\* to the next await, or to the return when no candidate is left
fetchLoop(s, k) ==
    LET thumbnailUrls == getThumbnailUrls(s.fetch.videoId)
    IN  IF k <= Len(thumbnailUrls)
        THEN checkThumbnailAvailability(s, thumbnailUrls[k].url)
        ELSE [s EXCEPT !.fetch.status = "resolved"]

\* fetchAvailableThumbnails(url), up to its first await or to the throw
fetchAvailableThumbnails(s, url) ==
    LET videoId == extractVideoId(url)
    IN  IF videoId = <<>>
        THEN [s EXCEPT !.fetch = [NoFetch EXCEPT !.status = "rejected",
                                                 !.error = "Invalid YouTube URL"]]
        ELSE fetchLoop([s EXCEPT !.fetch = [NoFetch EXCEPT !.status = "pending",
                                                           !.videoId = videoId]], 1)

\* a continuation that keeps every candidate whose load has ended
probeSettled_KeepAll(s, check) ==
    LET k == Len(s.fetch.probed)
        thumb == getThumbnailUrls(s.fetch.videoId)[k]
        s1 == [s EXCEPT !.fetch.loading = @ \ {thumb.url},
                        !.fetch.results =
                            Append(@, [name |-> thumb.name, key |-> thumb.key,
                                       width |-> thumb.width, height |-> thumb.height,
                                       url |-> thumb.url,
                                       actualWidth |-> check.width,
                                       actualHeight |-> check.height])]
    IN  fetchLoop(s1, k + 1)

\* img.onload / img.onerror of the image that is loading resolves the promise
\* awaited with check, and fetchAvailableThumbnails goes on after its await:
\* the rest of this iteration and the loop up to the next await
probeSettled(s, check) ==
    LET k == Len(s.fetch.probed)
        thumb == getThumbnailUrls(s.fetch.videoId)[k]
        s1 == [s EXCEPT !.fetch.loading = @ \ {thumb.url},
                        !.fetch.results =
                            IF check.available /\ check.width > 120
                            THEN Append(@, [name |-> thumb.name, key |-> thumb.key,
                                            width |-> thumb.width, height |-> thumb.height,
                                            url |-> thumb.url,
                                            actualWidth |-> check.width,
                                            actualHeight |-> check.height])
                            ELSE @]
    IN  fetchLoop(s1, k + 1)

--------------------------------------------------------------------------
(* UIController: the handlers *)

updateButtonStates(s) ==
    LET count == getCount(s)
        hasSelection == s.selectedIndex >= 0
    IN  [s EXCEPT !.buttons = [saveSelected |-> ~hasSelection,
                               saveAll |-> count = 0,
                               clear |-> count = 0]]

selectThumbnail(s, index) ==
    LET s1 == select(s, index)
        thumbnail == At(s.thumbnails, index)
    IN  IF thumbnail # <<>> THEN seek(s1, thumbnail[1].time) ELSE s1

\* addThumbnailToGrid(thumbnail), called with the object just pushed:
\* thumbnails.indexOf(thumbnail) is the last index
addThumbnailToGrid(s) ==
    LET index == getCount(s) - 1
    IN  selectThumbnail(s, index)

\* a captureFrame without the isLoaded guard
captureFrame_Unguarded(s) ==
    updateButtonStates(addThumbnailToGrid(
        capture(s, [currentTime |-> s.currentTime],
                s.outputWidth, s.outputHeight, s.format)))

\* captureFrame() ends with an exception thrown by capture
captureThrows(s) == s.isLoaded /\ s.tainted

captureFrame(s) ==
    IF ~s.isLoaded
    THEN s
    ELSE LET s1 == capture(s, [currentTime |-> s.currentTime],
                           s.outputWidth, s.outputHeight, s.format)
         IN  IF captureThrows(s)
             THEN s1
             ELSE updateButtonStates(addThumbnailToGrid(s1))

\* img.onload of addYoutubeThumbnailToGallery, for an image of the preset's
\* size (YouTube's maxresdefault)
addYoutubeThumbnail(s) ==
    LET mimeType == IF s.format = "png" THEN "image/png"
                    ELSE IF s.format = "jpeg" THEN "image/jpeg"
                    ELSE "image/webp"
        thumbnail == [time |-> 0, yt |-> TRUE, width |-> PresetWidth,
                      height |-> PresetHeight, format |-> s.format,
                      mime |-> mimeType]
        s1 == [s EXCEPT !.thumbnails = Append(@, thumbnail)]
    IN  updateButtonStates(addThumbnailToGrid(s1))

removeThumbnail(s, index) == updateButtonStates(remove(s, index))

saveSelected(s) ==
    LET thumbnail == getSelected(s)
    IN  IF thumbnail # <<>> THEN downloadSingle(s, thumbnail[1]) ELSE s

\* getAll() is the thumbnails array; the file name defaults to 'thumbnails'
saveAll(s) == downloadAll(s, s.thumbnails, "thumbnails")

\* parseInt(field.value) || 1, for a field that holds a number (0: empty)
parseIntOr1(value) == IF value = 0 THEN 1 ELSE value

\* handleSizeChange(changed), called after the field changed took its new
\* value: the ratio is computed from the two fields as they are now.
\* Math.round(width / (width / height)) is Round(width * height, width).
handleSizeChange(s, changed) ==
    IF ~s.lockRatio
    THEN s
    ELSE LET width == parseIntOr1(s.outputWidth)
             height == parseIntOr1(s.outputHeight)
         IN  IF changed = "width"
             THEN [s EXCEPT !.outputHeight = Round(width * height, width)]
             ELSE [s EXCEPT !.outputWidth = Round(height * width, height)]

\* A handle no closure answers to
Free == [positions |-> <<>>, index |-> 0, status |-> "free"]

\* enough handles for one live run and one stopped run per pending timeout
RunIds == 1..(MaxPending + 1)

PendingOf(s, r) == {i \in 1..Len(s.timeouts) : s.timeouts[i].run = r}

\* clearInterval(this.autoSnapInterval); this.autoSnapInterval = null.
\* captureNext of that run is never called again, so nothing reads its
\* positions and index any more: the model keeps only how the run ended.
clearAutoSnap(s, status) ==
    [s EXCEPT !.liveIntervals = @ \ {s.autoSnapInterval},
              !.autoSnapInterval = 0,
              !.runs = IF s.autoSnapInterval \in RunIds
                       THEN [@ EXCEPT ![s.autoSnapInterval] =
                                        [positions |-> <<>>, index |-> 0,
                                         status |-> status]]
                       ELSE @]

\* a clearThumbnails that stops the run and leaves the store as it is
clearThumbnails_KeepStore(s) ==
    LET s1 == IF s.autoSnapInterval # 0 THEN clearAutoSnap(s, "stopped") ELSE s
    IN  updateButtonStates(s1)

clearThumbnails(s) ==
    LET s1 == IF s.autoSnapInterval # 0 THEN clearAutoSnap(s, "stopped") ELSE s
    IN  updateButtonStates(clear(s1))

\* the closure captureNext of run r
captureNext(s, r) ==
    LET run == s.runs[r]
    IN  IF run.index >= Len(run.positions)
        THEN clearAutoSnap(s, "done")
        ELSE LET s1 == seek(s, run.positions[run.index + 1])
             IN  [s1 EXCEPT !.timeouts = Append(@, [run |-> r, forIndex |-> run.index])]

\* the 200 ms callback armed by captureNext of run t.run, for positions[t.forIndex]:
\* captureFrame(); index++  (index++ does not run when captureFrame throws)
settle(s, t) ==
    LET s1 == captureFrame(s)
    IN  [s1 EXCEPT !.runs[t.run].index =
                       IF s.runs[t.run].status = "running" /\ ~captureThrows(s)
                       THEN @ + 1 ELSE @,
                   !.timeouts = Tail(@)]

\* setInterval returns a handle no live timer has; the model reuses the least
\* handle whose closure no timer can call any more
NewHandle(s) == CHOOSE r \in RunIds : s.runs[r].status = "free"
                                      /\ \A q \in 1..(r - 1) : s.runs[q].status # "free"

\* a startAutoCapture whose stop branch clears the gallery as well
startAutoCapture_StopClears(s, intervalValue) ==
    IF s.autoSnapInterval # 0
    THEN clearThumbnails(s)
    ELSE LET positions == buildPositions(intervalValue, s.duration)
             s1 == clearThumbnails(s)
             r == NewHandle(s)
             s2 == [s1 EXCEPT !.runs[r] = [positions |-> positions, index |-> 0,
                                           status |-> "running"],
                              !.autoSnapInterval = r,
                              !.liveIntervals = @ \cup {r}]
         IN  captureNext(s2, r)

startAutoCapture(s, intervalValue) ==
    IF s.autoSnapInterval # 0
    THEN clearAutoSnap(s, "stopped")
    ELSE LET positions == buildPositions(intervalValue, s.duration)
             s1 == clearThumbnails(s)
             r == NewHandle(s)
             s2 == [s1 EXCEPT !.runs[r] = [positions |-> positions, index |-> 0,
                                           status |-> "running"],
                              !.autoSnapInterval = r,
                              !.liveIntervals = @ \cup {r}]
         IN  captureNext(s2, r)

--------------------------------------------------------------------------
(* The next state of an event *)

\* A closure that no timer can call any more (its interval is cleared and none
\* of its timeouts is pending) is garbage, and its handle is free.
Collect(s) ==
    [s EXCEPT !.runs = [r \in RunIds |->
                          IF r \notin s.liveIntervals /\ PendingOf(s, r) = {}
                          THEN Free
                          ELSE @[r]]]

Set(s0) ==
    LET s == Collect(s0)
    IN
    /\ thumbnails' = s.thumbnails
    /\ selectedIndex' = s.selectedIndex
    /\ isLoaded' = s.isLoaded
    /\ netState' = s.netState
    /\ duration' = s.duration
    /\ currentTime' = s.currentTime
    /\ buttons' = s.buttons
    /\ autoSnapInterval' = s.autoSnapInterval
    /\ liveIntervals' = s.liveIntervals
    /\ runs' = s.runs
    /\ timeouts' = s.timeouts
    /\ paused' = s.paused
    /\ tainted' = s.tainted
    /\ objectURL' = s.objectURL
    /\ liveURLs' = s.liveURLs
    /\ outputWidth' = s.outputWidth
    /\ outputHeight' = s.outputHeight
    /\ lockRatio' = s.lockRatio
    /\ format' = s.format
    /\ downloads' = s.downloads
    /\ fetch' = s.fetch

Event(op, arg) == [op |-> op, arg |-> arg, ret |-> <<>>]

NoCall == Event("none", <<>>)

--------------------------------------------------------------------------
(* The page: initial state and events *)

Init ==
    /\ thumbnails = <<>>
    /\ selectedIndex = -1
    /\ isLoaded = FALSE
    /\ netState = "empty"
    /\ duration = NaN
    /\ currentTime = 0
    /\ buttons = [saveSelected |-> TRUE, saveAll |-> TRUE, clear |-> TRUE]
    /\ autoSnapInterval = 0
    /\ liveIntervals = {}
    /\ runs = [r \in RunIds |-> Free]
    /\ timeouts = <<>>
    /\ paused = TRUE
    /\ tainted = FALSE
    /\ objectURL = 0
    /\ liveURLs = {}
    /\ outputWidth = PresetWidth
    /\ outputHeight = PresetHeight
    /\ lockRatio = TRUE
    /\ format = "png"
    /\ downloads = <<>>
    /\ fetch = NoFetch
    /\ call = NoCall

\* durations (seconds) of the videos loaded, and the interval values chosen
Durations == {10}

IntervalValues == {<<"5">>, <<"5", "0", "%">>}

\* handleFileSelect / handleUrlLoad: cleanup(), then video.src = ...; video.load()
\* (here: handleUrlLoad with a URL of the page's origin)
LoadVideo ==
    /\ Set(loadFromURL(Cur, FALSE))
    /\ call' = NoCall

\* the video's loadedmetadata event, for a video of d seconds
MetadataLoaded(d) ==
    /\ netState = "loading"
    /\ Set(handleMetadataLoaded(Cur, d))
    /\ call' = NoCall

HandleMetadataLoaded == \E d \in Durations : MetadataLoaded(d)

\* the Capture button, or the key C
CaptureFrame ==
    /\ isLoaded => Len(thumbnails) < MaxThumbs
    /\ Set(captureFrame(Cur))
    /\ call' = NoCall

AddYoutubeThumbnail ==
    /\ Len(thumbnails) < MaxThumbs
    /\ Set(addYoutubeThumbnail(Cur))
    /\ call' = NoCall

\* a click on the grid item that shows thumbnails[index]
SelectThumbnail ==
    /\ \E index \in 0..(Len(thumbnails) - 1) :
         Set(selectThumbnail(Cur, index))
    /\ call' = NoCall

\* a click on the remove mark of the grid item that shows thumbnails[index]
RemoveThumbnail ==
    /\ \E index \in 0..(Len(thumbnails) - 1) :
         Set(removeThumbnail(Cur, index))
    /\ call' = NoCall

\* the Clear button
ClearThumbnails ==
    /\ ~buttons.clear
    /\ Set(clearThumbnails(Cur))
    /\ call' = NoCall

\* the Auto Capture button while Idle
StartRun ==
    /\ autoSnapInterval = 0
    /\ Len(timeouts) < MaxPending
    /\ \E intervalValue \in IntervalValues :
         Set(startAutoCapture(Cur, intervalValue))
    /\ call' = Event("start", <<Len(thumbnails)>>)

\* the same button, reading Stop, while Running
StopRun ==
    /\ autoSnapInterval # 0
    /\ \E intervalValue \in IntervalValues :
         Set(startAutoCapture(Cur, intervalValue))
    /\ call' = Event("stop", <<>>)

\* the setInterval timer of run r fires: captureNext
Tick(r) ==
    /\ r \in liveIntervals
    /\ Cardinality(PendingOf(Cur, r)) <= 1
    /\ runs[r].index < Len(runs[r].positions) => Len(timeouts) < MaxPending
    /\ Set(captureNext(Cur, r))
    /\ call' = IF runs[r].index >= Len(runs[r].positions)
               THEN Event("complete", <<runs[r].positions>>)
               ELSE NoCall

IntervalTick == \E r \in RunIds : Tick(r)

\* the oldest pending settle timeout fires
SettleTimeout ==
    /\ timeouts # <<>>
    /\ isLoaded => Len(thumbnails) < MaxThumbs
    /\ Set(settle(Cur, Head(timeouts)))
    /\ call' = NoCall

Next ==
    \/ LoadVideo
    \/ HandleMetadataLoaded
    \/ CaptureFrame
    \/ AddYoutubeThumbnail
    \/ SelectThumbnail
    \/ RemoveThumbnail
    \/ ClearThumbnails
    \/ StartRun
    \/ StopRun
    \/ IntervalTick
    \/ SettleTimeout

Spec == Init /\ [][Next]_vars

--------------------------------------------------------------------------
(* The page with orderly timers and a user who, during a run, only presses
   Stop.  A 5 second video is loaded as well: its plan has one position. *)

QuietDurations == {5, 10}

Idle == autoSnapInterval = 0

QuietLoadVideo == Idle /\ LoadVideo

QuietMetadataLoaded == Idle /\ \E d \in QuietDurations : MetadataLoaded(d)

QuietCaptureFrame == Idle /\ CaptureFrame

QuietAddYoutubeThumbnail == Idle /\ AddYoutubeThumbnail

QuietSelectThumbnail == Idle /\ SelectThumbnail

QuietRemoveThumbnail == Idle /\ RemoveThumbnail

QuietClearThumbnails == Idle /\ ClearThumbnails

\* a tick of run r that fires after every settle timeout its run has armed
OrderlyTick == \E r \in RunIds : PendingOf(Cur, r) = {} /\ Tick(r)

NextQuiet ==
    \/ QuietLoadVideo
    \/ QuietMetadataLoaded
    \/ QuietCaptureFrame
    \/ QuietAddYoutubeThumbnail
    \/ QuietSelectThumbnail
    \/ QuietRemoveThumbnail
    \/ QuietClearThumbnails
    \/ StartRun
    \/ StopRun
    \/ OrderlyTick
    \/ SettleTimeout

SpecQuiet == Init /\ [][NextQuiet]_vars

--------------------------------------------------------------------------
(* ThumbnailGenerator alone: its methods called with any arguments *)

IndexArgs == (0 - MaxIndexArg)..MaxIndexArg

\* the video.currentTime values of the frames captured
CaptureTimes == {0, Unit, 2 * Unit}

MethodCall(op, arg, ret) == [op |-> op, arg |-> arg, ret |-> ret]

\* capture(video, ...) returns the thumbnail it pushed
StoreCapture ==
    /\ Len(thumbnails) < MaxThumbs
    /\ \E t \in CaptureTimes :
         LET s == capture(Cur, [currentTime |-> t], outputWidth, outputHeight, format)
         IN  /\ Set(s)
             /\ call' = MethodCall("capture", <<t>>, <<s.thumbnails[Len(s.thumbnails)]>>)

StoreRemove ==
    \E index \in IndexArgs :
        /\ Set(remove(Cur, index))
        /\ call' = MethodCall("remove", <<index>>, <<>>)

\* select(index) returns this.thumbnails[index]: <<>> stands for undefined
StoreSelect ==
    \E index \in IndexArgs :
        /\ Set(select(Cur, index))
        /\ call' = MethodCall("select", <<index>>, At(thumbnails, index))

StoreGetSelected ==
    /\ UNCHANGED pageVars
    /\ call' = MethodCall("getSelected", <<>>, getSelected(Cur))

StoreClear ==
    /\ Set(clear(Cur))
    /\ call' = MethodCall("clear", <<>>, <<>>)

NextStore ==
    \/ StoreCapture
    \/ StoreRemove
    \/ StoreSelect
    \/ StoreGetSelected
    \/ StoreClear

SpecStore == Init /\ [][NextStore]_vars

--------------------------------------------------------------------------
(* The capture plan alone: startAutoCapture's positions for an interval
   value and a duration *)

PlanIntervalValues ==
    {<<"1">>, <<"5">>, <<"1", "0">>, <<"3", "0">>, <<"6", "0">>,
     <<"2", "%">>, <<"4", "%">>, <<"5", "%">>, <<"1", "0", "%">>,
     <<"2", "5", "%">>, <<"5", "0", "%">>}

InitPlan ==
    /\ thumbnails = <<>>
    /\ selectedIndex = -1
    /\ isLoaded = FALSE
    /\ netState = "empty"
    /\ duration = NaN
    /\ currentTime = 0
    /\ buttons = [saveSelected |-> TRUE, saveAll |-> TRUE, clear |-> TRUE]
    /\ autoSnapInterval = 0
    /\ liveIntervals = {}
    /\ runs = [r \in RunIds |-> Free]
    /\ timeouts = <<>>
    /\ paused = TRUE
    /\ tainted = FALSE
    /\ objectURL = 0
    /\ liveURLs = {}
    /\ outputWidth = PresetWidth
    /\ outputHeight = PresetHeight
    /\ lockRatio = TRUE
    /\ format = "png"
    /\ downloads = <<>>
    /\ fetch = NoFetch
    /\ \E intervalValue \in PlanIntervalValues, d \in 1..MaxDuration :
         call = MethodCall("input", <<intervalValue, d>>, <<>>)

BuildPlan ==
    /\ call.op = "input"
    /\ call' = MethodCall("plan", call.arg, buildPositions(call.arg[1], call.arg[2] * Unit))
    /\ UNCHANGED pageVars

NextPlan == BuildPlan

SpecPlan == InitPlan /\ [][NextPlan]_vars

--------------------------------------------------------------------------
(* The video wrapper and the capture button: loads from files and from URLs
   of any origin, errors, seeks, play and pause *)

\* the callbacks of UIController a handler of VideoManager has invoked
Notified(op, arg, callbacks) == [op |-> op, arg |-> arg, ret |-> callbacks]

\* targets of the timeline, deltas of the arrow keys and the seek buttons
SeekTargets == {0 - Unit, 0, 4 * Unit, 12 * Unit}

SeekDeltas == {0 - 5 * Unit, 5 * Unit}

\* handleFileSelect with a file chosen, or a video file dropped
LoadFromFile ==
    /\ FreshURLs(Cur) # {}
    /\ Set(loadFromFile(Cur))
    /\ call' = Notified("loadFromFile", <<>>, <<>>)

\* handleUrlLoad with a URL typed
LoadFromURL ==
    /\ \E crossOrigin \in BOOLEAN : Set(loadFromURL(Cur, crossOrigin))
    /\ call' = Notified("loadFromURL", <<>>, <<>>)

\* loadedmetadata: handleMetadataLoaded calls onLoadCallback
VideoMetadataLoaded ==
    /\ netState = "loading"
    /\ \E d \in Durations : Set(handleMetadataLoaded(Cur, d))
    /\ call' = Notified("loadedmetadata", <<>>, <<"onLoadCallback">>)

\* error: handleError logs to the console and calls no callback
VideoError ==
    /\ netState \in {"loading", "loaded"}
    /\ Set(handleError(Cur))
    /\ call' = Notified("error", <<>>, <<>>)

Seek ==
    \E time \in SeekTargets :
        /\ Set(seek(Cur, time))
        /\ call' = Notified("seek", <<time>>, <<>>)

SeekRelative ==
    \E delta \in SeekDeltas :
        /\ Set(seekRelative(Cur, delta))
        /\ call' = Notified("seekRelative", <<delta>>, <<>>)

SeekToStart ==
    /\ Set(seekToStart(Cur))
    /\ call' = Notified("seekToStart", <<>>, <<>>)

SeekToEnd ==
    /\ Set(seekToEnd(Cur))
    /\ call' = Notified("seekToEnd", <<>>, <<>>)

TogglePlayPause ==
    /\ Set(togglePlayPause(Cur))
    /\ call' = Notified("togglePlayPause", <<>>, <<>>)

\* the Capture button or the key C, in any state of the video
VideoCaptureFrame ==
    /\ Len(thumbnails) < MaxThumbs
    /\ Set(captureFrame(Cur))
    /\ call' = Notified("captureFrame", <<>>, <<>>)

\* a click on a grid item
VideoSelectThumbnail ==
    /\ \E index \in 0..(Len(thumbnails) - 1) : Set(selectThumbnail(Cur, index))
    /\ call' = Notified("selectThumbnail", <<>>, <<>>)

NextVideo ==
    \/ LoadFromFile
    \/ LoadFromURL
    \/ VideoMetadataLoaded
    \/ VideoError
    \/ Seek
    \/ SeekRelative
    \/ SeekToStart
    \/ SeekToEnd
    \/ TogglePlayPause

SpecVideo == Init /\ [][NextVideo]_vars

\* captures and selections between loads, errors and seeks to the end
NextCapture ==
    \/ LoadFromFile
    \/ LoadFromURL
    \/ VideoMetadataLoaded
    \/ VideoError
    \/ SeekToEnd
    \/ VideoCaptureFrame
    \/ VideoSelectThumbnail

SpecCapture == Init /\ [][NextCapture]_vars

--------------------------------------------------------------------------
(* A run left alone, with timers that fire: every tick after the settle
   timeout armed by the tick before it, loads only while Idle, no Stop *)

LiveLoadFromFile == Idle /\ LoadFromFile

LiveLoadFromURL == Idle /\ LoadFromURL

NextLive ==
    \/ LiveLoadFromFile
    \/ LiveLoadFromURL
    \/ VideoMetadataLoaded
    \/ VideoError
    \/ StartRun
    \/ OrderlyTick
    \/ SettleTimeout

SpecLive ==
    /\ Init
    /\ [][NextLive]_vars
    /\ WF_vars(OrderlyTick)
    /\ WF_vars(SettleTimeout)

--------------------------------------------------------------------------
(* The output size fields *)

Dimensions == 0..MaxDimension

\* typing a number into the width field: the input event
WidthInput ==
    \E value \in Dimensions :
        /\ Set(handleSizeChange([Cur EXCEPT !.outputWidth = value], "width"))
        /\ call' = MethodCall("input", <<"width", value>>, <<>>)

HeightInput ==
    \E value \in Dimensions :
        /\ Set(handleSizeChange([Cur EXCEPT !.outputHeight = value], "height"))
        /\ call' = MethodCall("input", <<"height", value>>, <<>>)

\* the lock-ratio checkbox
ToggleLockRatio ==
    /\ Set([Cur EXCEPT !.lockRatio = ~@])
    /\ call' = MethodCall("lock", <<>>, <<>>)

NextSize ==
    \/ WidthInput
    \/ HeightInput
    \/ ToggleLockRatio

SpecSize == Init /\ [][NextSize]_vars

--------------------------------------------------------------------------
(* The ratio label alone *)

RatioInputs ==
    ((1..MaxSide) \X (1..MaxSide)) \cup {<<1280, 720>>, <<1000, 333>>, <<1920, 1080>>}

InitRatio ==
    /\ thumbnails = <<>>
    /\ selectedIndex = -1
    /\ isLoaded = FALSE
    /\ netState = "empty"
    /\ duration = NaN
    /\ currentTime = 0
    /\ buttons = [saveSelected |-> TRUE, saveAll |-> TRUE, clear |-> TRUE]
    /\ autoSnapInterval = 0
    /\ liveIntervals = {}
    /\ runs = [r \in RunIds |-> Free]
    /\ timeouts = <<>>
    /\ paused = TRUE
    /\ tainted = FALSE
    /\ objectURL = 0
    /\ liveURLs = {}
    /\ outputWidth = PresetWidth
    /\ outputHeight = PresetHeight
    /\ lockRatio = TRUE
    /\ format = "png"
    /\ downloads = <<>>
    /\ fetch = NoFetch
    /\ \E size \in RatioInputs : call = MethodCall("input", size, <<>>)

CalculateRatio ==
    /\ call.op = "input"
    /\ call' = MethodCall("calculateRatio", call.arg,
                          <<calculateRatio(call.arg[1], call.arg[2])>>)
    /\ UNCHANGED pageVars

NextRatio == CalculateRatio

SpecRatio == InitRatio /\ [][NextRatio]_vars

--------------------------------------------------------------------------
(* Export: captures in the format chosen, selections, format changes, and the
   two save buttons *)

ExportFormats == {"png", "jpeg"}

\* the video.currentTime values of the frames captured: 0 s and 1.25 s
ExportTimes == {0, Unit + 50}

ExportCapture ==
    /\ Len(thumbnails) < MaxThumbs
    /\ \E t \in ExportTimes :
         Set(capture(Cur, [currentTime |-> t], outputWidth, outputHeight, format))
    /\ call' = MethodCall("capture", <<>>, <<>>)

ExportSelect ==
    /\ \E index \in 0..(Len(thumbnails) - 1) : Set(select(Cur, index))
    /\ call' = MethodCall("select", <<>>, <<>>)

\* the change event of the export-format list
SetFormat ==
    /\ \E fmt \in ExportFormats : Set(setFormat(Cur, fmt))
    /\ call' = MethodCall("setFormat", <<>>, <<>>)

\* the Save Selected button; the call records the image selected
SaveSelected ==
    /\ Len(downloads) < MaxDownloads
    /\ Set(saveSelected(Cur))
    /\ call' = MethodCall("saveSelected", getSelected(Cur), <<>>)

\* the Save All button; the call records the images held
SaveAll ==
    /\ Len(downloads) < MaxDownloads
    /\ Set(saveAll(Cur))
    /\ call' = MethodCall("saveAll", thumbnails, <<>>)

NextExport ==
    \/ ExportCapture
    \/ ExportSelect
    \/ SetFormat
    \/ SaveSelected
    \/ SaveAll

SpecExport == Init /\ [][NextExport]_vars

--------------------------------------------------------------------------
(* ThumbnailGenerator.capture called with any size and format, on videos of
   several native sizes *)

\* the width and height arguments of capture
CaptureWidths == {16, 1280}

CaptureHeights == {9, 720}

\* the format argument: the three the table of getMimeType knows, and two
\* it does not
CaptureFormats == {"png", "jpeg", "webp", "gif", ""}

\* <<video.videoWidth, video.videoHeight>> of the frame drawn
NativeSizes == {<<1920, 1080>>, <<16, 9>>, <<640, 480>>}

\* capture(video, width, height, format); the call records the arguments and
\* the native size of the video
EncodeCapture ==
    /\ Len(thumbnails) < MaxThumbs
    /\ \E width \in CaptureWidths, height \in CaptureHeights,
          fmt \in CaptureFormats, native \in NativeSizes :
         LET video == [currentTime |-> currentTime, videoWidth |-> native[1],
                       videoHeight |-> native[2]]
             s == capture(Cur, video, width, height, fmt)
         IN  /\ Set(s)
             /\ call' = MethodCall("capture", <<width, height, fmt, native>>,
                                   <<s.thumbnails[Len(s.thumbnails)]>>)

EncodeClear ==
    /\ thumbnails # <<>>
    /\ Set(clear(Cur))
    /\ call' = MethodCall("clear", <<>>, <<>>)

NextEncode ==
    \/ EncodeCapture
    \/ EncodeClear

SpecEncode == Init /\ [][NextEncode]_vars

--------------------------------------------------------------------------
(* YouTubeThumbnailFetcher.fetchAvailableThumbnails: one call at a time, each
   image load ending with any outcome *)

\* the url argument: bare ID; short link; watch page; shorts page, 12 ID characters; empty; 10 ID characters; 12 ID characters; another site; short link, 7 ID characters
FetchInputs ==
    { <<"d", "Q", "w", "4", "w", "9", "W", "g", "X", "c", "Q">>,
      <<"h", "t", "t", "p", "s", ":", "/", "/", "y", "o", "u", "t", "u", ".", "b", "e", "/", "d", "Q", "w", "4", "w", "9", "W", "g", "X", "c", "Q">>,
      <<"h", "t", "t", "p", "s", ":", "/", "/", "w", "w", "w", ".", "y", "o", "u", "t", "u", "b", "e", ".", "c", "o", "m", "/", "w", "a", "t", "c", "h", "?", "v", "=", "d", "Q", "w", "4", "w", "9", "W", "g", "X", "c", "Q", "&", "t", "=", "1">>,
      <<"y", "o", "u", "t", "u", "b", "e", ".", "c", "o", "m", "/", "s", "h", "o", "r", "t", "s", "/", "9", "b", "Z", "k", "p", "7", "q", "1", "9", "f", "0", "Q">>,
      <<>>,
      <<"d", "Q", "w", "4", "w", "9", "W", "g", "X", "c">>,
      <<"d", "Q", "w", "4", "w", "9", "W", "g", "X", "c", "Q", "Q">>,
      <<"h", "t", "t", "p", "s", ":", "/", "/", "v", "i", "m", "e", "o", ".", "c", "o", "m", "/", "7", "6", "9", "7", "9", "8", "7", "1">>,
      <<"h", "t", "t", "p", "s", ":", "/", "/", "y", "o", "u", "t", "u", ".", "b", "e", "/", "d", "Q", "w", "4", "w", "9", "W">> }

\* what a load can end with: an error; YouTube's 120 x 90 stand-in image;
\* the image in the size of the quality
Checks(q) ==
    { [available |-> FALSE, width |-> 0, height |-> 0],
      [available |-> TRUE, width |-> 120, height |-> 90],
      [available |-> TRUE, width |-> q.width, height |-> q.height] }

FetchAvailableThumbnails ==
    /\ fetch.status # "pending"
    /\ \E url \in FetchInputs :
         /\ Set(fetchAvailableThumbnails(Cur, url))
         /\ call' = MethodCall("fetchAvailableThumbnails", <<url>>, <<>>)

\* img.onload or img.onerror of the image that is loading
ProbeSettled ==
    /\ fetch.status = "pending"
    /\ \E url \in fetch.loading :
         /\ url = fetch.probed[Len(fetch.probed)]
         /\ \E check \in Checks(qualities[Len(fetch.probed)]) :
              /\ Set(probeSettled(Cur, check))
              /\ call' = MethodCall("checkThumbnailAvailability", <<url>>, <<check>>)

NextYoutube ==
    \/ FetchAvailableThumbnails
    \/ ProbeSettled

SpecYoutube == Init /\ [][NextYoutube]_vars

--------------------------------------------------------------------------
(* Properties of the auto-capture sequencer *)

\* the step taken is the oldest settle timeout firing
SettleStep == timeouts # <<>> /\ timeouts' = Tail(timeouts)

\* the step taken arms a settle timeout (a seek of captureNext)
SeekStep == Len(timeouts') = Len(timeouts) + 1

Times(thumbs) == [i \in 1..Len(thumbs) |-> thumbs[i].time]

\* C1: once the run has been stopped (the Stop button or Clear), no capture is
\* appended to the store: a settle timeout of a stopped run that fires leaves
\* the thumbnails as they are.
C1_NoCaptureAfterStop ==
    [][(SettleStep /\ runs[Head(timeouts).run].status = "stopped")
         => thumbnails' = thumbnails]_vars

\* C1, the case: a settle timeout of a stopped run is pending on a loaded video
C1_StoppedRunPending ==
    /\ timeouts # <<>>
    /\ runs[Head(timeouts).run].status = "stopped"
    /\ isLoaded

\* C2: the steps of a run are strictly sequential: when the run seeks for step
\* N+1 (or seeks again for step N), no settle timeout of an earlier or the same
\* step of that run is still pending, i.e. seek, settle and capture of the
\* steps before have completed.
C2_StepsSequential ==
    [][SeekStep =>
         LET armed == timeouts'[Len(timeouts')]
         IN  PendingOf(Cur, armed.run) = {}]_vars

\* C2, the case: a run has seeked for its second position
C2_SecondSeek ==
    \E i \in 1..Len(timeouts) : timeouts[i].forIndex = 1

\* C9: when a run that was not stopped completes on a loaded video, the store
\* holds exactly one image per planned timestamp, in plan order, and nothing
\* else, whatever the store held and whatever ran before the start.
C9_RunYieldsPlan ==
    (call.op = "complete" /\ isLoaded)
        => /\ Times(thumbnails) = call.arg[1]
           /\ \A i \in 1..Len(thumbnails) : ~thumbnails[i].yt

\* C9, the case: a run over a non-empty plan has completed
C9_RunCompleted ==
    call.op = "complete" /\ isLoaded /\ call.arg[1] # <<>>

\* C10: immediately after a run is started from Idle the store is empty and
\* nothing is selected, whatever it held before.
C10_StartClearsStore ==
    call.op = "start" => (thumbnails = <<>> /\ selectedIndex = -1)

\* C10, the case: a run has just been started over a store that held two
\* images, one of them selected
C10_StartedOverImages ==
    call.op = "start" /\ call.arg[1] >= 2

--------------------------------------------------------------------------
(* Properties of the thumbnail store *)

InRange(index, thumbs) == index >= 0 /\ index < Len(thumbs)

ValidSelection(sel, thumbs) == sel = -1 \/ InRange(sel, thumbs)

\* C3: after any sequence of store operations selectedIndex is -1 or a valid
\* index of the sequence; it never points past the end or at a removed slot.
C3_SelectedIndexValid == ValidSelection(selectedIndex, thumbnails)

\* C4: remove(i) with i in range and previous selection s: the selection becomes
\* s-1 if i < s, -1 if i = s, and stays s otherwise; a selection that survives
\* still designates the image it designated before.
C4_RemoveAdjustsSelection ==
    [][(/\ call'.op = "remove"
        /\ InRange(call'.arg[1], thumbnails)
        /\ ValidSelection(selectedIndex, thumbnails))
         => LET i == call'.arg[1]
                s == selectedIndex
            IN  /\ selectedIndex' = IF i < s THEN s - 1
                                    ELSE IF i = s THEN -1 ELSE s
                /\ (s # -1 /\ i # s)
                     => /\ InRange(selectedIndex', thumbnails')
                        /\ thumbnails'[selectedIndex' + 1] = thumbnails[s + 1]]_vars

\* C4, the case: an image before the selected one has been removed, and the
\* selection, shifted down, is still a valid index
C4_RemovedBeforeSelection ==
    /\ call.op = "remove"
    /\ call.arg[1] >= 0
    /\ call.arg[1] <= selectedIndex
    /\ InRange(selectedIndex, thumbnails)

\* C5: select(index) with index in range sets selectedIndex to index and returns
\* that image; with index out of range it leaves the store as it is and returns
\* no image.
C5_SelectContract ==
    [][call'.op = "select"
         => LET index == call'.arg[1]
            IN  /\ thumbnails' = thumbnails
                /\ IF InRange(index, thumbnails)
                   THEN /\ selectedIndex' = index
                        /\ call'.ret = <<thumbnails[index + 1]>>
                   ELSE /\ selectedIndex' = selectedIndex
                        /\ call'.ret = <<>>]_vars

\* C5, the case: select has been called with an index out of range
C5_SelectedOutOfRange ==
    call.op = "select" /\ ~InRange(call.arg[1], thumbnails)

\* C6: remove(index) with index out of range, negative ones included, changes
\* neither the sequence nor the selection.
C6_RemoveOutOfRangeNoOp ==
    [][(call'.op = "remove" /\ ~InRange(call'.arg[1], thumbnails))
         => (thumbnails' = thumbnails /\ selectedIndex' = selectedIndex)]_vars

--------------------------------------------------------------------------
(* Properties of the capture plan *)

\* the step s in units: the seconds chosen, or the percentage of the duration
StepOf(intervalValue, dur) ==
    IF includes(intervalValue, "%")
    THEN (parseFloat(intervalValue) * dur) \div 100
    ELSE parseFloat(intervalValue) * Unit

\* C8: the plan is s/2, s/2 + s, s/2 + 2s, ... : every such timestamp strictly
\* below the duration and no other, in increasing order; a percentage p gives
\* the plan of the fixed step (p/100) * duration; for a 10 second video, 5
\* seconds and 50% both give 2.5, 7.5 and 25% gives 1.25, 3.75, 6.25, 8.75.
C8_PlanIsCentredGrid ==
    call.op = "plan"
        => LET intervalValue == call.arg[1]
               dur == call.arg[2] * Unit
               plan == call.ret
               s == StepOf(intervalValue, dur)
           IN  /\ s > 0
               /\ \A k \in 1..Len(plan) :
                      /\ 2 * plan[k] = s * (2 * k - 1)
                      /\ plan[k] < dur
               /\ s * (2 * Len(plan) + 1) >= 2 * dur
               /\ \A fixed \in PlanIntervalValues :
                      (/\ includes(intervalValue, "%")
                       /\ ~includes(fixed, "%")
                       /\ StepOf(fixed, dur) = s)
                        => buildPositions(fixed, dur) = plan
               /\ (call.arg = <<(<<"5">>), 10>>) => plan = <<500, 1500>>
               /\ (call.arg = <<(<<"5", "0", "%">>), 10>>) => plan = <<500, 1500>>
               /\ (call.arg = <<(<<"2", "5", "%">>), 10>>) => plan = <<250, 750, 1250, 1750>>

\* C8, the case: the plan of 25% of a 10 second video has been computed
C8_QuarterPlanBuilt ==
    /\ call.op = "plan"
    /\ call.arg = <<(<<"2", "5", "%">>), 10>>
    /\ Len(call.ret) = 4

--------------------------------------------------------------------------
(* Properties of runs, of the video wrapper and of captures *)

Running == autoSnapInterval # 0

\* C11: every run that is not stopped returns to Idle by itself (interval
\* cleared, handle reset) when the timers fire, for every plan and whether or
\* not each capture succeeds.
C11_RunReturnsToIdle == Running ~> ~Running

\* C11, the case: a run is under way whose captures throw
C11_RunWithFailingCaptures == Running /\ isLoaded /\ tainted

Clamp(x, lo, hi) == IF x < lo THEN lo ELSE IF x > hi THEN hi ELSE x

SeekOps == {"seek", "seekRelative", "seekToStart", "seekToEnd"}

\* C13: seek, seekRelative and togglePlayPause change nothing unless the video
\* is loaded, which it is not while loading or after an error; when loaded,
\* seek(t) sets currentTime to t clamped into [0, duration], seekRelative(d) does
\* what seek(currentTime + d) does, and 0 <= currentTime <= duration holds after
\* every seek.
C13_SeeksGuardedAndClamped ==
    [][/\ isLoaded' => netState' = "loaded"
       /\ (call'.op \in (SeekOps \cup {"togglePlayPause"}) /\ ~isLoaded)
            => UNCHANGED pageVars
       /\ (call'.op = "seek" /\ isLoaded)
            => /\ currentTime' = Clamp(call'.arg[1], 0, duration)
               /\ UNCHANGED <<paused, isLoaded, duration, netState>>
       /\ (call'.op = "seekRelative" /\ isLoaded)
            => /\ currentTime' = Clamp(currentTime + call'.arg[1], 0, duration)
               /\ UNCHANGED <<paused, isLoaded, duration, netState>>
       /\ (call'.op \in SeekOps /\ isLoaded)
            => (0 <= currentTime' /\ currentTime' <= duration')]_vars

\* C13, the case: a seek past the end of a loaded video has been clamped
C13_SeekClamped ==
    /\ call.op = "seek"
    /\ isLoaded
    /\ call.arg[1] > duration
    /\ currentTime = duration

LoadOps == {"loadFromFile", "loadFromURL"}

\* C14: at most one object URL is unrevoked at any time, the one held in
\* objectURL: every load revokes the URL of the file load before it; and after a
\* load request, from any state, the video is loading and not loaded.
C14_OneObjectURL ==
    /\ Cardinality(liveURLs) <= 1
    /\ liveURLs = (IF objectURL = 0 THEN {} ELSE {objectURL})
    /\ call.op \in LoadOps => (~isLoaded /\ netState = "loading")

\* C14, the case: a file has been loaded over another file (its URL is the
\* second one, which only a load that revokes the first returns)
C14_SecondFileLoaded ==
    call.op = "loadFromFile" /\ objectURL = 2

\* C15: when a load fails the video is not loaded (seek, toggle and capture
\* change nothing), the failure is reported to a callback of the caller, nothing
\* loads again by itself, and the error state is left only by a new load.
C15_ErrorReported ==
    [][/\ call'.op = "error"
            => (~isLoaded' /\ netState' = "error" /\ call'.ret # <<>>)
       /\ netState = "error" => ~isLoaded
       /\ (netState = "error" /\ netState' # "error") => call'.op \in LoadOps]_vars

\* C15, the case: a load has failed
C15_LoadFailed == call.op = "error" /\ netState = "error"

\* C16: a capture attempted while the video is not loaded (before the first
\* load, while loading, after an error), or one that throws, leaves thumbnails,
\* selectedIndex and currentTime as they were.
C16_FailedCaptureChangesNothing ==
    [][(call'.op = "captureFrame" /\ (~isLoaded \/ captureThrows(Cur)))
         => UNCHANGED <<thumbnails, selectedIndex, currentTime>>]_vars

\* C16, the case: a capture has been attempted after an error, over a store
\* that holds a selected image
C16_CaptureAfterError ==
    /\ call.op = "captureFrame"
    /\ netState = "error"
    /\ selectedIndex >= 0
    /\ thumbnails # <<>>

--------------------------------------------------------------------------
(* Properties of the output size and of the ratio label *)

\* C17: with the lock on, typing a new width (height) recomputes the other
\* dimension to the integer nearest to the one that keeps the ratio the pair
\* had before the change, and never to less than 1; with the lock off the
\* other dimension stays as it was.
C17_LockKeepsRatio ==
    [][(call'.op = "input" /\ call'.arg[2] >= 1 /\ outputWidth >= 1 /\ outputHeight >= 1)
         => LET value == call'.arg[2]
            IN  IF call'.arg[1] = "width"
                THEN /\ outputWidth' = value
                     /\ outputHeight' =
                          IF lockRatio
                          THEN Max(1, Round(value * outputHeight, outputWidth))
                          ELSE outputHeight
                ELSE /\ outputHeight' = value
                     /\ outputWidth' =
                          IF lockRatio
                          THEN Max(1, Round(value * outputWidth, outputHeight))
                          ELSE outputWidth]_vars

\* C17, the case: with the lock on, a width different from the one before has
\* been typed over a pair of positive dimensions
C17_WidthTypedLocked ==
    /\ call.op = "input"
    /\ call.arg[1] = "width"
    /\ lockRatio
    /\ outputWidth >= 2
    /\ outputHeight >= 1

\* the greatest common divisor, by its definition
Divides(d, n) == n % d = 0

GCD(w, h) ==
    CHOOSE d \in 1..Min(w, h) :
        /\ Divides(d, w) /\ Divides(d, h)
        /\ \A e \in (d + 1)..Min(w, h) : ~(Divides(e, w) /\ Divides(e, h))

\* C18: for positive integers w, h, calculateRatio(w, h) is the label a:b with
\* a = w / gcd(w, h), b = h / gcd(w, h) exactly when a <= 21 and b <= 21, and the
\* decimal label (w / h to two decimals):1 otherwise; 1280 x 720 gives 16:9 and
\* 1000 x 333 gives a decimal label.
C18_RatioLabel ==
    call.op = "calculateRatio"
        => LET w == call.arg[1]
               h == call.arg[2]
               a == w \div GCD(w, h)
               b == h \div GCD(w, h)
               label == call.ret[1]
           IN  /\ (a <= 21 /\ b <= 21) => label = [kind |-> "ratio", a |-> a, b |-> b]
               /\ ~(a <= 21 /\ b <= 21)
                    => /\ label.kind = "decimal"
                       /\ label.b = 1
                       /\ 2 * h * label.a <= 200 * w + h
                       /\ 2 * h * label.a > 200 * w - h
               /\ call.arg = <<1280, 720>> => label = [kind |-> "ratio", a |-> 16, b |-> 9]
               /\ call.arg = <<1000, 333>> => label.kind = "decimal"

\* C18, the case: the label of 1280 x 720 has been computed
C18_LabelOf1280x720 ==
    call.op = "calculateRatio" /\ call.arg = <<1280, 720>>

--------------------------------------------------------------------------
(* Properties of the exports *)

\* the three digits of a number below 1000
ThreeDigits(n) == <<n \div 100, (n \div 10) % 10, n % 10>>

\* C19: Save All over an empty store triggers no download; over N images it
\* triggers exactly one, of the archive thumbnails.zip with exactly N entries in
\* the folder thumbnails, the image at index i under the three-digit number
\* i + 1: the entries are pairwise distinct and in store order.
C19_DownloadAllArchive ==
    [][call'.op = "saveAll"
         => IF thumbnails = <<>>
            THEN downloads' = downloads
            ELSE /\ Len(downloads') = Len(downloads) + 1
                 /\ SubSeq(downloads', 1, Len(downloads)) = downloads
                 /\ LET archive == downloads'[Len(downloads')]
                    IN  /\ archive.kind = "zip"
                        /\ archive.name = <<"thumbnails", "zip">>
                        /\ archive.folder = "thumbnails"
                        /\ Len(archive.entries) = Len(thumbnails)
                        /\ \A i \in 1..Len(thumbnails) :
                             /\ archive.entries[i].seq = ThreeDigits(i)
                             /\ archive.entries[i].timestamp = toFixed2(thumbnails[i].time)
                        /\ \A i, j \in 1..Len(thumbnails) :
                             i # j => archive.entries[i] # archive.entries[j]]_vars

\* C19, the case: an archive of two images has been downloaded
C19_ArchiveOfTwo ==
    /\ call.op = "saveAll"
    /\ downloads # <<>>
    /\ Len(downloads[Len(downloads)].entries) = 2

\* the extension of an image: jpg for JPEG, else the name of its format
ExtensionOf(image) == IF image.format = "jpeg" THEN "jpg" ELSE image.format

\* C20: the file name of a single download is a function of the image alone:
\* its time, width and height, and the extension of the format it was captured
\* in, whatever the export format is at the time of the download.
C20_NameFromImageAlone ==
    [][(call'.op = "saveSelected" /\ call'.arg # <<>>)
         => LET image == call'.arg[1]
            IN  /\ Len(downloads') = Len(downloads) + 1
                /\ downloads'[Len(downloads')].name =
                     [timestamp |-> toFixed2(image.time), width |-> image.width,
                      height |-> image.height, ext |-> ExtensionOf(image)]]_vars

\* C20, the case: an image has been downloaded after the export format was
\* changed from the one it was captured in
C20_DownloadedAfterFormatChange ==
    /\ call.op = "saveSelected"
    /\ call.arg # <<>>
    /\ call.arg[1].format # format

--------------------------------------------------------------------------
(* C21 *)

KnownMimeTypes == [png |-> "image/png", jpeg |-> "image/jpeg", webp |-> "image/webp"]

\* C21: every capture appends one image whose width and height are the ones
\* passed to capture, whatever the native size of the video, and whose data
\* is encoded as PNG when the format passed is none of png, jpeg, webp (and
\* as the format passed otherwise).
C21_CaptureRecordsRequest ==
    [][call'.op = "capture" =>
         LET width == call'.arg[1]
             height == call'.arg[2]
             fmt == call'.arg[3]
             image == thumbnails'[Len(thumbnails')]
         IN  /\ thumbnails' = Append(thumbnails, image)
             /\ image.width = width
             /\ image.height = height
             /\ image.mime = IF fmt \in DOMAIN KnownMimeTypes
                             THEN KnownMimeTypes[fmt]
                             ELSE "image/png"]_vars

\* an image of an unknown format, 16 x 9 from a 1920 x 1080 video, is held
C21_UnknownFormatCaptured ==
    /\ call.op = "capture"
    /\ call.arg = <<16, 9, "gif", <<1920, 1080>>>>
    /\ thumbnails # <<>>
    /\ thumbnails[Len(thumbnails)].format = "gif"

--------------------------------------------------------------------------
(* C22 *)

QualityOrder == <<"maxresdefault", "sddefault", "hqdefault", "mqdefault", "default">>

\* C22: a call of fetchAvailableThumbnails with an input that holds no video
\* ID is rejected with the invalid-URL error and requests no image; a call
\* with an input that holds one requests the candidate of the first quality,
\* and each load that ends is followed by the request of the candidate of the
\* next quality, or by the return after the fifth: the addresses requested
\* are those of the five qualities in their fixed order, never two loading
\* at once.  A candidate enters the result only when its load has ended and
\* found it available (and wider than 120 pixels), after those entered before.
C22_FetchProbesInOrder ==
    [][/\ call'.op = "fetchAvailableThumbnails" =>
            IF extractVideoId(call'.arg[1]) = <<>>
            THEN /\ fetch'.status = "rejected"
                 /\ fetch'.error = "Invalid YouTube URL"
                 /\ fetch'.probed = <<>>
                 /\ fetch'.loading = {}
            ELSE /\ fetch'.status = "pending"
                 /\ fetch'.videoId = extractVideoId(call'.arg[1])
                 /\ Len(fetch'.probed) = 1
                 /\ fetch'.results = <<>>
       /\ call'.op = "checkThumbnailAvailability" =>
            LET k == Len(fetch.probed)
                check == call'.ret[1]
            IN  /\ call'.arg[1] = fetch.probed[k]
                /\ IF check.available /\ check.width > 120
                   THEN /\ Len(fetch'.results) = Len(fetch.results) + 1
                        /\ SubSeq(fetch'.results, 1, Len(fetch.results)) = fetch.results
                        /\ fetch'.results[Len(fetch'.results)].key = QualityOrder[k]
                        /\ fetch'.results[Len(fetch'.results)].url = fetch.probed[k]
                   ELSE fetch'.results = fetch.results
                /\ IF k < Len(QualityOrder)
                   THEN fetch'.status = "pending" /\ Len(fetch'.probed) = k + 1
                   ELSE fetch'.status = "resolved" /\ fetch'.probed = fetch.probed
       /\ Cardinality(fetch'.loading) <= 1
       /\ fetch'.status = "pending" <=> fetch'.loading # {}
       /\ \A i \in 1..Len(fetch'.probed) :
            fetch'.probed[i] = <<"https://img.youtube.com/vi/", fetch'.videoId, "/",
                                QualityOrder[i], ".jpg">>]_vars

\* a call with a watch-page address has returned two of the five candidates
C22_TwoOfFiveReturned ==
    /\ fetch.status = "resolved"
    /\ fetch.videoId = <<"d", "Q", "w", "4", "w", "9", "W", "g", "X", "c", "Q">>
    /\ Len(fetch.probed) = 5
    /\ Len(fetch.results) = 2
    /\ fetch.results[1].key = "sddefault"
    /\ fetch.results[2].key = "mqdefault"

--------------------------------------------------------------------------
(* C23 *)

\* C23: the auto-capture button pressed while a run is Running stops that
\* run and does nothing else: the sequencer is Idle at once (no handle, no
\* live interval), no seek is issued and no run is started (no settle timeout
\* is armed, the position stays), and the store, the selection and the
\* buttons are as they were.  A seek to a planned timestamp is only ever
\* issued by the run that is Running, so none of the stopped run follows.
C23_StopOnlyStops ==
    [][/\ (Running /\ call'.op = "stop") =>
            /\ autoSnapInterval' = 0
            /\ liveIntervals' = liveIntervals \ {autoSnapInterval}
            /\ liveIntervals' = {}
            /\ UNCHANGED <<timeouts, currentTime, thumbnails, selectedIndex, buttons>>
       /\ SeekStep =>
            /\ autoSnapInterval' # 0
            /\ timeouts'[Len(timeouts')].run = autoSnapInterval'
            /\ runs'[autoSnapInterval'].status = "running"]_vars

\* a run has just been stopped with an image captured and a settle timeout
\* pending
C23_StoppedMidRun ==
    /\ call.op = "stop"
    /\ autoSnapInterval = 0
    /\ thumbnails # <<>>
    /\ timeouts # <<>>

--------------------------------------------------------------------------
(* C24 *)

\* the interval handle is non-null exactly while one interval timer is live,
\* and that timer is the one of the handle
C24_OneLiveInterval ==
    /\ Cardinality(liveIntervals) <= 1
    /\ autoSnapInterval # 0 <=> liveIntervals # {}
    /\ autoSnapInterval # 0 => liveIntervals = {autoSnapInterval}

\* C24: at most one run has scheduled work outstanding: the interval handle
\* is non-null exactly while a run is Running, at most one interval timer is
\* live, and while a run is Running every pending settle timeout is one of
\* that run, none of a run stopped or completed before it started.
C24_OneRunScheduled ==
    /\ C24_OneLiveInterval
    /\ Running => \A i \in 1..Len(timeouts) : timeouts[i].run = autoSnapInterval

\* a run is Running while a settle timeout of a stopped run is pending
C24_EarlierTimeoutPending ==
    /\ Running
    /\ \E i \in 1..Len(timeouts) :
         /\ timeouts[i].run # autoSnapInterval
         /\ runs[timeouts[i].run].status = "stopped"

--------------------------------------------------------------------------
(* C25 *)

\* C25: the export buttons agree with the store: Save Selected is enabled
\* exactly when selectedIndex is the index of an image held, Save All and
\* Clear exactly when an image is held (buttons holds the disabled flags).
C25_ButtonsAgree ==
    /\ buttons.saveSelected = ~InRange(selectedIndex, thumbnails)
    /\ buttons.saveAll = (thumbnails = <<>>)
    /\ buttons.clear = (thumbnails = <<>>)

\* an image is selected while Save Selected is disabled
C25_SelectedButDisabled ==
    /\ InRange(selectedIndex, thumbnails)
    /\ buttons.saveSelected

====
